---- MODULE Spec2Model ----
(***************************************************************************)
(* TaskMaster: the Task entity (models.py) and the TaskMaster store and    *)
(* query pipeline (taskmaster.py), as a state machine over the store's     *)
(* fields.  Strings are sequences of one-character strings.                *)
(***************************************************************************)
EXTENDS Integers, Sequences, FiniteSets, TLC

VARIABLES
    tasks,           \* TaskMaster.tasks: sequence of Task records
    selected_index,  \* TaskMaster.selected_index
    filter,          \* TaskMaster.filter: "ALL" | "PENDING" | "DONE"
    sort_by,         \* TaskMaster.sort_by: "created" | "priority" | "alpha"
    sort_reverse,    \* TaskMaster.sort_reverse
    search_query,    \* TaskMaster.search_query
    search_active,   \* TaskMaster.search_active
    message,         \* TaskMaster.message (the text without interpolated values)
    file,            \* the backing file: [exists, parses, top, records]
    now,             \* the reading datetime.now() returns
    nextId,          \* the next fresh uuid4
    pc               \* where the program is: "start" (constructed), "loop" (in
                     \* the run loop), "crashed" (an exception left run)

vars == <<tasks, selected_index, filter, sort_by, sort_reverse, search_query,
          search_active, message, file, now, nextId, pc>>

----------------------------------------------------------------------------
(* Bounds of the model *)

\* number of tasks ever created (fresh ids 1..MaxTasks)
MaxTasks == 2
\* the clock reads 0..MaxTime
MaxTime == 1
\* longest search query typed
MaxQuery == 1

(* Program constants *)

\* models.py: len(description) > 200, description[:200], strip()[:200]
MAX_DESCRIPTION_LENGTH == 200

\* models.py: is_due_soon(self, hours: int = 24)
DUE_SOON_HOURS == 24

----------------------------------------------------------------------------
(* Characters and strings *)

\* str.isspace of one character
IsSpace(c) == c = " "

\* str.lower of one character
LowerChar(c) == IF c = "A" THEN "a" ELSE IF c = "B" THEN "b" ELSE c

\* ord(c): the code point string comparison uses
Ord(c) == CASE c = " " -> 32
            [] c = "A" -> 65
            [] c = "B" -> 66
            [] c = "a" -> 97
            [] c = "b" -> 98

\* str.lower
Lower(s) == [i \in 1..Len(s) |-> LowerChar(s[i])]

SetMin(S) == CHOOSE x \in S : \A y \in S : x <= y

\* str.strip(): drop the whitespace before the first and after the last
\* character that is not whitespace
Strip(s) ==
    IF \A i \in 1..Len(s) : IsSpace(s[i]) THEN <<>>
    ELSE LET first == CHOOSE i \in 1..Len(s) :
                          ~IsSpace(s[i]) /\ \A j \in 1..(i - 1) : IsSpace(s[j])
             final == CHOOSE i \in 1..Len(s) :
                          ~IsSpace(s[i]) /\ \A j \in (i + 1)..Len(s) : IsSpace(s[j])
         IN  SubSeq(s, first, final)

\* s[:n]
Slice(s, n) == SubSeq(s, 1, IF Len(s) < n THEN Len(s) ELSE n)

\* s[:-1]
DropLast(s) == SubSeq(s, 1, Len(s) - 1)

\* q in s (substring test)
Contains(q, s) ==
    \E i \in 0..(Len(s) - Len(q)) : SubSeq(s, i + 1, i + Len(q)) = q

\* n copies of character c
Rep(c, n) == [i \in 1..n |-> c]

----------------------------------------------------------------------------
(* Task (models.py) *)

\* due_date None
NoDate == <<>>

\* the guard of Task.__init__ and Task.update_description: not raising ValueError
ValidDescription(d) == ~(d = <<>> \/ Strip(d) = <<>>)

\* Task.__init__: truncate to 200 when longer, then strip
InitDescription(d) ==
    Strip(IF Len(d) > MAX_DESCRIPTION_LENGTH
          THEN Slice(d, MAX_DESCRIPTION_LENGTH) ELSE d)

\* a constructor that sets the deadline to the time of creation
NewTaskDueAtOnce(d, id, t) ==
    [id |-> id, description |-> InitDescription(d), status |-> "PENDING",
     priority |-> "MEDIUM", created_at |-> t, due_date |-> <<t>>,
     updated_at |-> t]

\* Task.__init__ with the defaults add_task uses
NewTask(d, id, t) ==
    [id |-> id, description |-> InitDescription(d), status |-> "PENDING",
     priority |-> "MEDIUM", created_at |-> t, due_date |-> NoDate,
     updated_at |-> t]

\* update_description cutting before it strips, as __init__ does
TruncateThenStrip(d) == Strip(Slice(d, MAX_DESCRIPTION_LENGTH))

\* Task.update_description: strip, then truncate to 200
UpdatedDescription(d) == Slice(Strip(d), MAX_DESCRIPTION_LENGTH)

UpdateDescription(task, d, t) ==
    [task EXCEPT !.description = UpdatedDescription(d), !.updated_at = t]

\* toggle_status that only ever completes a task
MarkDone(task, t) == [task EXCEPT !.status = "DONE", !.updated_at = t]

\* Task.toggle_status
ToggleStatus(task, t) ==
    [task EXCEPT !.status = IF task.status = "PENDING" THEN "DONE" ELSE "PENDING",
                 !.updated_at = t]

\* Task.update_priority
UpdatePriority(task, p, t) == [task EXCEPT !.priority = p, !.updated_at = t]

\* Task.set_due_date
SetDueDate(task, due, t) == [task EXCEPT !.due_date = due, !.updated_at = t]

\* is_overdue without the test of the status
IsOverdueWhateverStatus(task, t) ==
    IF task.due_date = NoDate THEN FALSE ELSE t > task.due_date[1]

\* Task.is_overdue, t the reading of datetime.now()
IsOverdue(task, t) ==
    IF task.due_date = NoDate \/ task.status = "DONE" THEN FALSE
    ELSE t > task.due_date[1]

\* is_due_soon that counts a deadline at the very reading of the clock
IsDueSoonFromNow(task, t, hours) ==
    IF task.due_date = NoDate \/ task.status = "DONE" THEN FALSE
    ELSE t <= task.due_date[1] /\ task.due_date[1] <= t + hours

\* Task.is_due_soon(hours), the clock counting hours
IsDueSoon(task, t, hours) ==
    IF task.due_date = NoDate \/ task.status = "DONE" THEN FALSE
    ELSE t < task.due_date[1] /\ task.due_date[1] <= t + hours

\* Task.get_deadline_status, t the reading of the clock during the call
GetDeadlineStatus(task, t) ==
    IF task.due_date = NoDate THEN "none"
    ELSE IF task.status = "DONE" THEN "done"
    ELSE IF IsOverdue(task, t) THEN "overdue"
    ELSE IF IsDueSoon(task, t, DUE_SOON_HOURS) THEN "soon"
    ELSE "normal"

\* Priority.value
PriorityValue(p) == CASE p = "LOW" -> 1 [] p = "MEDIUM" -> 2 [] p = "HIGH" -> 3

----------------------------------------------------------------------------
(* JSON documents (json.dump, json.load) and Task.to_dict / Task.from_dict *)

\* a JSON value: its type with the text of a string, the value of a number or
\* the length of an array; Absent stands for a key the dict does not hold
JString(s) == [type |-> "string", text |-> s, n |-> 0]
JNumber(k) == [type |-> "number", text |-> <<>>, n |-> k]
JArray(len) == [type |-> "array", text |-> <<>>, n |-> len]
JNull == [type |-> "null", text |-> <<>>, n |-> 0]
Absent == [type |-> "absent", text |-> <<>>, n |-> 0]

\* bool(v) of a loaded value; data.get(key) of an absent key is None
Truthy(v) ==
    CASE v.type = "string" -> v.text # <<>>
      [] v.type = "number" -> v.n # 0
      [] v.type = "array" -> v.n # 0
      [] OTHER -> FALSE

\* the decimal digit of 0..9 and back
Digit(k) == <<"0", "1", "2", "3", "4", "5", "6", "7", "8", "9">>[k + 1]
IsDigit(c) == c \in {"0", "1", "2", "3", "4", "5", "6", "7", "8", "9"}
DigitValue(c) == CHOOSE k \in 0..9 : Digit(k) = c

\* datetime.isoformat: the clock reading t (0..99) is written "T" and its
\* two digits
IsoFormat(t) == <<"T", Digit(t \div 10), Digit(t % 10)>>

\* datetime.fromisoformat accepts the text (it raises ValueError otherwise)
IsIsoFormat(s) == Len(s) = 3 /\ s[1] = "T" /\ IsDigit(s[2]) /\ IsDigit(s[3])

\* datetime.fromisoformat
FromIsoFormat(s) == 10 * DigitValue(s[2]) + DigitValue(s[3])

\* the name of an enum member, as text
NameText(name) ==
    CASE name = "PENDING" -> <<"P", "E", "N", "D", "I", "N", "G">>
      [] name = "DONE" -> <<"D", "O", "N", "E">>
      [] name = "LOW" -> <<"L", "O", "W">>
      [] name = "MEDIUM" -> <<"M", "E", "D", "I", "U", "M">>
      [] name = "HIGH" -> <<"H", "I", "G", "H">>

\* TaskStatus, Priority: the member names
StatusNames == {"PENDING", "DONE"}
PriorityNames == {"LOW", "MEDIUM", "HIGH"}

\* TaskStatus[text], Priority[text]
MemberNamed(text, names) == CHOOSE nm \in names : NameText(nm) = text

\* ids: str(uuid4()) of the k-th uuid is written "u" and the digit of k; an
\* id that came from a JSON number k is the token 10 + k (an int id never
\* equals a str id)
UuidText(id) == <<"u", Digit(id)>>
IdValue(id) == IF id >= 10 THEN JNumber(id - 10) ELSE JString(UuidText(id))
IdOf(v) == IF v.type = "number" THEN 10 + v.n ELSE DigitValue(v.text[2])

\* Task.to_dict
ToDict(task) ==
    [id |-> IdValue(task.id),
     description |-> JString(task.description),
     status |-> JString(NameText(task.status)),
     priority |-> JString(NameText(task.priority)),
     created_at |-> JString(IsoFormat(task.created_at)),
     due_date |-> IF task.due_date = NoDate THEN JNull
                  ELSE JString(IsoFormat(task.due_date[1])),
     updated_at |-> JString(IsoFormat(task.updated_at))]

\* an element of the loaded list: a dict with its items, or a value of
\* another JSON type
NoItems == [id |-> Absent, description |-> Absent, status |-> Absent,
            priority |-> Absent, created_at |-> Absent, due_date |-> Absent,
            updated_at |-> Absent]
JObject(items) == [type |-> "object", items |-> items]
JOther(type) == [type |-> type, items |-> NoItems]

\* the exception an enum lookup Enum[v] raises, "none" when it finds a member
LookupError(v, names) ==
    IF v.type \in {"array", "object"} THEN "TypeError"
    ELSE IF v.type = "string" /\ \E nm \in names : NameText(nm) = v.text
    THEN "none"
    ELSE "KeyError"

\* datetime.fromisoformat(v) if v else None: the exception raised
TimestampError(v) ==
    IF ~Truthy(v) THEN "none"
    ELSE IF v.type # "string" THEN "TypeError"
    ELSE IF IsIsoFormat(v.text) THEN "none"
    ELSE "ValueError"

\* the guard of Task.__init__ on a loaded description: the exception raised
DescriptionError(v) ==
    IF ~Truthy(v) THEN "ValueError"
    ELSE IF v.type # "string" THEN "AttributeError"
    ELSE IF Strip(v.text) = <<>> THEN "ValueError"
    ELSE "none"

\* the first exception of a sequence of evaluation steps
FirstError(errs) ==
    IF \A i \in 1..Len(errs) : errs[i] = "none" THEN "none"
    ELSE errs[CHOOSE i \in 1..Len(errs) :
                  errs[i] # "none" /\ \A j \in 1..(i - 1) : errs[j] = "none"]

\* Task.from_dict(e): the exception it raises, "none" when it returns; the
\* arguments of cls(...) are evaluated in order, then __init__ runs
FromDictError(e) ==
    IF e.type # "object" THEN "TypeError"
    ELSE LET d == e.items
         IN  FirstError(<<
                 IF d.description.type = "absent" THEN "KeyError" ELSE "none",
                 IF d.status.type = "absent" THEN "KeyError"
                 ELSE LookupError(d.status, StatusNames),
                 IF d.priority.type = "absent" THEN "none"
                 ELSE LookupError(d.priority, PriorityNames),
                 IF d.id.type = "absent" THEN "KeyError" ELSE "none",
                 TimestampError(d.created_at),
                 TimestampError(d.due_date),
                 DescriptionError(d.description) >>)

\* Task.from_dict(e) when it returns: t is datetime.now(), fresh the next uuid4
FromDict(e, t, fresh) ==
    LET d == e.items
        created == IF Truthy(d.created_at) THEN FromIsoFormat(d.created_at.text)
                   ELSE t
    IN  [id |-> IF Truthy(d.id) THEN IdOf(d.id) ELSE fresh,
         description |-> InitDescription(d.description.text),
         status |-> MemberNamed(d.status.text, StatusNames),
         priority |-> IF d.priority.type = "absent" THEN "MEDIUM"
                      ELSE MemberNamed(d.priority.text, PriorityNames),
         created_at |-> created,
         due_date |-> IF Truthy(d.due_date)
                      THEN <<FromIsoFormat(d.due_date.text)>> ELSE NoDate,
         updated_at |-> created]

----------------------------------------------------------------------------
(* Query pipeline (taskmaster.py) *)

\* lexicographic order of two strings given as code points
RECURSIVE SeqLess(_, _)
SeqLess(a, b) ==
    IF b = <<>> THEN FALSE
    ELSE IF a = <<>> THEN TRUE
    ELSE IF Head(a) # Head(b) THEN Head(a) < Head(b)
    ELSE SeqLess(Tail(a), Tail(b))

\* _get_sort_key comparing descriptions without lower()
SortKeyCaseSensitive(task, sb) ==
    LET done_sort == IF task.status = "DONE" THEN 1 ELSE 0
    IN  IF sb = "priority"
        THEN <<done_sort, <<PriorityValue(task.priority)>>, task.created_at>>
        ELSE IF sb = "alpha"
        THEN <<done_sort, [i \in 1..Len(task.description) |->
                              Ord(task.description[i])],
               task.created_at>>
        ELSE <<done_sort, <<task.created_at>>, 0>>

\* _get_sort_key without the status bucket
SortKeyNoBucket(task, sb) ==
    IF sb = "priority"
    THEN <<0, <<PriorityValue(task.priority)>>, task.created_at>>
    ELSE IF sb = "alpha"
    THEN <<0, [i \in 1..Len(task.description) |->
                  Ord(LowerChar(task.description[i]))],
           task.created_at>>
    ELSE <<0, <<task.created_at>>, 0>>

\* _get_sort_key: the tuple (done_sort, second, third); the second component
\* is held as a sequence (one number, or the code points of the lowered text)
SortKey(task, sb) ==
    LET done_sort == IF task.status = "DONE" THEN 1 ELSE 0
    IN  IF sb = "priority"
        THEN <<done_sort, <<PriorityValue(task.priority)>>, task.created_at>>
        ELSE IF sb = "alpha"
        THEN <<done_sort, [i \in 1..Len(task.description) |->
                              Ord(LowerChar(task.description[i]))],
               task.created_at>>
        ELSE <<done_sort, <<task.created_at>>, 0>>

\* tuple comparison k1 < k2
KeyLess(k1, k2) ==
    IF k1[1] # k2[1] THEN k1[1] < k2[1]
    ELSE IF k1[2] # k2[2] THEN SeqLess(k1[2], k2[2])
    ELSE k1[3] < k2[3]

\* the order of a sort that drops reverse=
BehindIgnoringReverse(x, y, sb, rev) ==
    ~KeyLess(SortKey(x, sb), SortKey(y, sb))

\* x stays behind y in the sorted list: list.sort is stable, and with
\* reverse=True it orders by descending key and still keeps ties in list order
Behind(x, y, sb, rev) ==
    IF rev THEN ~KeyLess(SortKey(y, sb), SortKey(x, sb))
    ELSE ~KeyLess(SortKey(x, sb), SortKey(y, sb))

\* insert x into the sorted list s behind every element it does not precede
RECURSIVE InsertSorted(_, _, _, _)
InsertSorted(x, s, sb, rev) ==
    IF s = <<>> THEN <<x>>
    ELSE IF Behind(x, Head(s), sb, rev)
         THEN <<Head(s)>> \o InsertSorted(x, Tail(s), sb, rev)
         ELSE <<x>> \o s

\* list.sort(key=self._get_sort_key(), reverse=self.sort_reverse)
RECURSIVE SortTasks(_, _, _)
SortTasks(s, sb, rev) ==
    IF s = <<>> THEN <<>>
    ELSE InsertSorted(s[Len(s)], SortTasks(DropLast(s), sb, rev), sb, rev)

IsPending(t) == t.status = "PENDING"
IsDone(t) == t.status = "DONE"

\* a filter step without the branch for DONE
StatusFilterPendingOnly(ts, f) ==
    IF f = "PENDING" THEN SelectSeq(ts, IsPending) ELSE ts

\* the filter step of get_filtered_tasks
StatusFilter(ts, f) ==
    IF f = "PENDING" THEN SelectSeq(ts, IsPending)
    ELSE IF f = "DONE" THEN SelectSeq(ts, IsDone)
    ELSE ts

\* a search that compares the texts as they are written
SearchFilterCaseSensitive(ts, q) ==
    IF q # <<>>
    THEN SelectSeq(ts, LAMBDA t : Contains(q, t.description))
    ELSE ts

\* the search step of get_filtered_tasks
SearchFilter(ts, q) ==
    IF q # <<>>
    THEN SelectSeq(ts, LAMBDA t : Contains(Lower(q), Lower(t.description)))
    ELSE ts

\* get_filtered_tasks sorts the list `filtered` in place; with filter ALL and
\* an empty query that list is self.tasks itself
SortsStore(f, q) == f \notin {"PENDING", "DONE"} /\ q = <<>>

\* the list get_filtered_tasks returns
FilteredTasks(ts, f, q, sb, rev) ==
    SortTasks(SearchFilter(StatusFilter(ts, f), q), sb, rev)

\* self.tasks after get_filtered_tasks returned
StoreAfterView(ts, f, q, sb, rev) ==
    IF SortsStore(f, q) THEN SortTasks(ts, sb, rev) ELSE ts

\* the view of the current state
View == FilteredTasks(tasks, filter, search_query, sort_by, sort_reverse)
\* the store after computing the view of the current state
Viewed == StoreAfterView(tasks, filter, search_query, sort_by, sort_reverse)

\* the tuple get_stats builds over a list of tasks, t the reading of the clock:
\* total, pending, done = total - pending, overdue
Stats(ts, t) ==
    LET total == Len(ts)
        pending == Cardinality({k \in 1..Len(ts) : ts[k].status = "PENDING"})
    IN  <<total, pending, total - pending,
          Cardinality({k \in 1..Len(ts) : IsOverdue(ts[k], t)})>>

\* get_stats counting over the filtered view
GetStatsOfView == Stats(View, now)

\* get_stats of the current state: it counts over self.tasks
GetStats == Stats(tasks, now)

----------------------------------------------------------------------------
(* TaskMaster: construction and persistence *)

\* message None
NoMessage == "None"

\* the backing file: whether it exists, whether its text is JSON, the type of
\* the top-level value and the elements iterating over that value yields
NoFile == [exists |-> FALSE, parses |-> TRUE, top |-> "array", records |-> <<>>]

\* TaskMaster.__init__; the data file does not exist yet
Init ==
    /\ tasks = <<>>
    /\ selected_index = 0
    /\ filter = "ALL"
    /\ sort_by = "created"
    /\ sort_reverse = FALSE
    /\ search_query = <<>>
    /\ search_active = FALSE
    /\ message = NoMessage
    /\ file = NoFile
    /\ now = 0
    /\ nextId = 1
    /\ pc = "start"

\* save_tasks writing the tasks last to first
SavedInReverse(ts) ==
    [exists |-> TRUE, parses |-> TRUE, top |-> "array",
     records |-> [i \in 1..Len(ts) |-> JObject(ToDict(ts[Len(ts) + 1 - i]))]]

\* save_tasks: the file holds to_dict of every task, in store order
Saved(ts) ==
    [exists |-> TRUE, parses |-> TRUE, top |-> "array",
     records |-> [i \in 1..Len(ts) |-> JObject(ToDict(ts[i]))]]

\* save_tasks when open() may raise IOError: the file is left as it was
SaveTasks(ts, ok) == IF ok THEN Saved(ts) ELSE file

\* the exceptions load_tasks catches (KeyError, ValueError; JSONDecodeError is
\* a ValueError)
Caught == {"KeyError", "ValueError"}

\* the exception raised inside the try of load_tasks, "none" when the list
\* comprehension completes
LoadError(f) ==
    IF ~f.exists THEN "none"
    ELSE IF ~f.parses THEN "ValueError"
    ELSE IF f.top \notin {"array", "object"} THEN "TypeError"
    ELSE FirstError([i \in 1..Len(f.records) |-> FromDictError(f.records[i])])

\* the elements that take a fresh uuid4: task_id or str(uuid4())
TakesFresh(e) == ~Truthy(e.items.id)

\* [Task.from_dict(task_data) for task_data in data]
LoadedTasks(f, t, fresh) ==
    [i \in 1..Len(f.records) |->
        FromDict(f.records[i], t,
                 fresh + Cardinality({j \in 1..(i - 1) : TakesFresh(f.records[j])}))]

\* load_tasks, the first statement of run() after the terminal is set up
LoadTasks ==
    /\ pc = "start"
    /\ LET err == LoadError(file)
       IN  /\ pc' = IF err = "none" \/ err \in Caught THEN "loop" ELSE "crashed"
           /\ tasks' = IF err = "none" /\ file.exists
                       THEN LoadedTasks(file, now, nextId)
                       ELSE IF err \in Caught THEN <<>> ELSE tasks
           /\ message' = IF err \in Caught THEN "Error loading tasks" ELSE message
           /\ nextId' = IF err = "none"
                        THEN nextId + Cardinality({j \in 1..Len(file.records) :
                                                      TakesFresh(file.records[j])})
                        ELSE nextId
    /\ UNCHANGED <<selected_index, filter, sort_by, sort_reverse, search_query,
                   search_active, file, now>>

\* 0 <= index < len(filtered_tasks)
InRange(i, view) == 0 <= i /\ i < Len(view)

\* the position in ts of the first task with the id
\* (for task in self.tasks: if task.id == ...)
FirstWithId(ts, id) == SetMin({k \in 1..Len(ts) : ts[k].id = id})

\* tasks.append instead of tasks.insert(0, ...)
InsertBack(task, ts) == Append(ts, task)

\* self.tasks.insert(0, task)
InsertFront(task, ts) == <<task>> \o ts

\* time passes between two operations
Tick ==
    /\ now < MaxTime
    /\ now' = now + 1
    /\ UNCHANGED <<pc, tasks, selected_index, filter, sort_by, sort_reverse,
                   search_query, search_active, message, file, nextId>>

----------------------------------------------------------------------------
(* TaskMaster: operations *)

\* get_filtered_tasks, called on its own (as the tests and the renderer do)
GetFilteredTasks ==
    /\ pc = "loop"
    /\ tasks' = Viewed
    /\ UNCHANGED <<pc, selected_index, filter, sort_by, sort_reverse, search_query,
                   search_active, message, file, now, nextId>>

\* add_task(description)
AddTaskSaving(d, ok) ==
    /\ pc = "loop"
    /\ ValidDescription(d) => nextId <= MaxTasks
    /\ UNCHANGED <<pc, sort_by, sort_reverse, now>>
    /\ IF ValidDescription(d)
       THEN /\ nextId' = nextId + 1
            /\ selected_index' = 0
            /\ filter' = "ALL"
            /\ search_query' = <<>>
            /\ search_active' = FALSE
            /\ message' = "Task added"
            /\ tasks' = InsertFront(NewTask(d, nextId, now), tasks)
            /\ file' = SaveTasks(tasks', ok)
       ELSE /\ message' = "Task description cannot be empty"
            /\ UNCHANGED <<tasks, nextId, file, selected_index, filter,
                           search_query, search_active>>

\* AddTask when the file is writable
AddTask(d) == AddTaskSaving(d, TRUE)

\* edit_task(index, new_description)
EditTaskSaving(i, d, ok) ==
    LET view == View
        store == Viewed
        hit == InRange(i, view)
        good == hit /\ ValidDescription(d)
    IN  /\ pc = "loop"
        /\ UNCHANGED <<pc, selected_index, filter, sort_by, sort_reverse,
                       search_query, search_active, now, nextId>>
        /\ message' = IF good THEN "Task updated"
                      ELSE IF hit THEN "Task description cannot be empty"
                      ELSE message
        /\ tasks' = IF good
                    THEN LET k == FirstWithId(store, view[i + 1].id)
                         IN  [store EXCEPT ![k] = UpdateDescription(store[k], d, now)]
                    ELSE store
        /\ file' = IF good THEN SaveTasks(tasks', ok) ELSE file

\* EditTask when the file is writable
EditTask(i, d) == EditTaskSaving(i, d, TRUE)

\* toggle_task_status addressing self.tasks by the raw index
ToggledAtRawIndex(ts, i, f, q, sb, rev, t) ==
    LET view == FilteredTasks(ts, f, q, sb, rev)
        store == StoreAfterView(ts, f, q, sb, rev)
    IN  IF InRange(i, view) /\ i < Len(store)
        THEN [store EXCEPT ![i + 1] = ToggleStatus(store[i + 1], t)]
        ELSE store

\* self.tasks after toggle_task_status(index): the task at position index of
\* the view is looked up by id in self.tasks and toggled
Toggled(ts, i, f, q, sb, rev, t) ==
    LET view == FilteredTasks(ts, f, q, sb, rev)
        store == StoreAfterView(ts, f, q, sb, rev)
    IN  IF InRange(i, view)
        THEN LET k == FirstWithId(store, view[i + 1].id)
             IN  [store EXCEPT ![k] = ToggleStatus(store[k], t)]
        ELSE store

\* toggle_task_status(index)
ToggleTaskStatusSaving(i, ok) ==
    LET view == View
        hit == InRange(i, view)
        store == Viewed
        found == store[FirstWithId(store, view[i + 1].id)]
    IN  /\ pc = "loop"
        /\ UNCHANGED <<pc, selected_index, filter, sort_by, sort_reverse,
                       search_query, search_active, now, nextId>>
        /\ message' = IF hit
                      THEN IF found.status = "PENDING"
                           THEN "Task completed" ELSE "Task reopened"
                      ELSE message
        /\ tasks' = Toggled(tasks, i, filter, search_query, sort_by, sort_reverse,
                            now)
        /\ file' = IF hit THEN SaveTasks(tasks', ok) ELSE file

\* ToggleTaskStatus when the file is writable
ToggleTaskStatus(i) == ToggleTaskStatusSaving(i, TRUE)

\* change_priority(index, priority)
ChangePrioritySaving(i, p, ok) ==
    LET view == View
        store == Viewed
        hit == InRange(i, view)
    IN  /\ pc = "loop"
        /\ UNCHANGED <<pc, selected_index, filter, sort_by, sort_reverse,
                       search_query, search_active, now, nextId>>
        /\ message' = IF hit THEN "Priority set" ELSE message
        /\ tasks' = IF hit
                    THEN LET k == FirstWithId(store, view[i + 1].id)
                         IN  [store EXCEPT ![k] = UpdatePriority(store[k], p, now)]
                    ELSE store
        /\ file' = IF hit THEN SaveTasks(tasks', ok) ELSE file

\* ChangePriority when the file is writable
ChangePriority(i, p) == ChangePrioritySaving(i, p, TRUE)

\* delete_task(index); yes is what confirm_delete returns
DeleteTaskSaving(i, yes, ok) ==
    LET view == View
        store == Viewed
        go == InRange(i, view) /\ yes
        removed == SelectSeq(store, LAMBDA t : t.id # view[i + 1].id)
        after == FilteredTasks(removed, filter, search_query, sort_by, sort_reverse)
    IN  /\ pc = "loop"
        /\ UNCHANGED <<pc, filter, sort_by, sort_reverse, search_query, search_active,
                       now, nextId>>
        /\ message' = IF go THEN "Deleted" ELSE message
        /\ tasks' = IF go
                    THEN StoreAfterView(removed, filter, search_query, sort_by,
                                        sort_reverse)
                    ELSE store
        /\ file' = IF go THEN SaveTasks(removed, ok) ELSE file
        /\ selected_index' = IF go /\ selected_index >= Len(after) /\ selected_index > 0
                             THEN selected_index - 1 ELSE selected_index

\* DeleteTask when the file is writable
DeleteTask(i, yes) == DeleteTaskSaving(i, yes, TRUE)

\* the message f"Archived {count} done task(s)"
ArchivedMessage(count) ==
    <<"Archived 1 done task(s)", "Archived 2 done task(s)",
      "Archived 3 done task(s)", "Archived 4 done task(s)",
      "Archived 5 done task(s)", "Archived 6 done task(s)",
      "Archived 7 done task(s)", "Archived 8 done task(s)",
      "Archived 9 done task(s)">>[count]

\* an archive that drops only the first DONE task
ArchivedFirstOnly(ts) ==
    LET first == SetMin({k \in 1..Len(ts) : IsDone(ts[k])})
    IN  IF \E k \in 1..Len(ts) : IsDone(ts[k])
        THEN SubSeq(ts, 1, first - 1) \o SubSeq(ts, first + 1, Len(ts))
        ELSE ts

\* [t for t in self.tasks if t.status == TaskStatus.PENDING]
Archived(ts) == SelectSeq(ts, IsPending)

\* an archive that resets the view the way add_task does
ArchiveResettingView(ok) ==
    LET count == Len(SelectSeq(tasks, IsDone))
        some == count # 0
    IN  /\ pc = "loop"
        /\ tasks' = IF some THEN Archived(tasks) ELSE tasks
        /\ file' = IF some THEN SaveTasks(tasks', ok) ELSE file
        /\ selected_index' = IF some THEN 0 ELSE selected_index
        /\ filter' = IF some THEN "ALL" ELSE filter
        /\ search_query' = IF some THEN <<>> ELSE search_query
        /\ search_active' = IF some THEN FALSE ELSE search_active
        /\ message' = IF some THEN ArchivedMessage(count)
                      ELSE "No done tasks to archive"
        /\ UNCHANGED <<pc, sort_by, sort_reverse, now, nextId>>

\* archive_done_tasks
ArchiveDoneTasksSaving(ok) ==
    LET count == Len(SelectSeq(tasks, IsDone))
        some == count # 0
    IN  /\ pc = "loop"
        /\ tasks' = IF some THEN Archived(tasks) ELSE tasks
        /\ file' = IF some THEN SaveTasks(tasks', ok) ELSE file
        /\ selected_index' = IF some THEN 0 ELSE selected_index
        /\ message' = IF some THEN ArchivedMessage(count)
                      ELSE "No done tasks to archive"
        /\ UNCHANGED <<pc, filter, sort_by, sort_reverse, search_query, search_active,
                       now, nextId>>

\* ArchiveDoneTasks when the file is writable
ArchiveDoneTasks == ArchiveDoneTasksSaving(TRUE)

----------------------------------------------------------------------------
(* TaskMaster: view controls *)

\* a cycle_filter that steps backwards through list(TaskFilter)
PreviousFilter(f) ==
    CASE f = "ALL" -> "DONE" [] f = "DONE" -> "PENDING" [] f = "PENDING" -> "ALL"

\* list(TaskFilter) and the successor cycle_filter takes
NextFilter(f) ==
    CASE f = "ALL" -> "PENDING" [] f = "PENDING" -> "DONE" [] f = "DONE" -> "ALL"

\* SORT_OPTIONS and the successor cycle_sort takes
NextSort(sb) ==
    CASE sb = "created" -> "priority" [] sb = "priority" -> "alpha"
      [] sb = "alpha" -> "created"

\* cycle_filter
CycleFilter ==
    /\ pc = "loop"
    /\ filter' = NextFilter(filter)
    /\ selected_index' = 0
    /\ message' = "Filter"
    /\ UNCHANGED <<pc, tasks, sort_by, sort_reverse, search_query, search_active,
                   file, now, nextId>>

\* cycle_sort
CycleSort ==
    /\ pc = "loop"
    /\ sort_by' = NextSort(sort_by)
    /\ message' = "Sort by"
    /\ UNCHANGED <<pc, tasks, selected_index, filter, sort_reverse, search_query,
                   search_active, file, now, nextId>>

\* toggle_sort_order
ToggleSortOrder ==
    /\ pc = "loop"
    /\ sort_reverse' = ~sort_reverse
    /\ message' = "Sort order"
    /\ UNCHANGED <<pc, tasks, selected_index, filter, sort_by, search_query,
                   search_active, file, now, nextId>>

\* set_search
SetSearch ==
    /\ pc = "loop"
    /\ search_active' = TRUE
    /\ search_query' = <<>>
    /\ selected_index' = 0
    /\ message' = "Search mode - type to filter"
    /\ UNCHANGED <<pc, tasks, filter, sort_by, sort_reverse, file, now, nextId>>

\* clear_search
ClearSearch ==
    /\ pc = "loop"
    /\ search_query' = <<>>
    /\ search_active' = FALSE
    /\ selected_index' = 0
    /\ message' = "Search cleared"
    /\ UNCHANGED <<pc, tasks, filter, sort_by, sort_reverse, file, now, nextId>>

\* update_search(char), char one character
UpdateSearch(c) ==
    /\ pc = "loop"
    /\ Len(search_query) < MaxQuery
    /\ search_query' = search_query \o <<c>>
    /\ selected_index' = 0
    /\ UNCHANGED <<pc, tasks, filter, sort_by, sort_reverse, search_active, message,
                   file, now, nextId>>

\* backspace_search
BackspaceSearch ==
    /\ pc = "loop"
    /\ search_query' = DropLast(search_query)
    /\ selected_index' = 0
    /\ UNCHANGED <<pc, tasks, filter, sort_by, sort_reverse, search_active, message,
                   file, now, nextId>>

\* run(), KEY_DOWN or "j" outside search mode: the cursor moves down the view
KeyDown ==
    /\ pc = "loop"
    /\ tasks' = Viewed
    /\ selected_index' = IF selected_index < Len(View) - 1
                         THEN selected_index + 1 ELSE selected_index
    /\ UNCHANGED <<pc, filter, sort_by, sort_reverse, search_query, search_active,
                   message, file, now, nextId>>

----------------------------------------------------------------------------
(* The store driven through its mutating operations, in the initial view *)

\* descriptions given to add_task and edit_task
Descriptions == {<<>>, <<" ">>, <<"a">>, <<"B">>}

\* indexes given to the index-addressed operations
Indexes == -1..MaxTasks

Priorities == {"LOW", "MEDIUM", "HIGH"}

Next ==
    \/ LoadTasks
    \/ Tick
    \/ GetFilteredTasks
    \/ \E d \in Descriptions : AddTask(d)
    \/ \E i \in Indexes, d \in Descriptions : EditTask(i, d)
    \/ \E i \in Indexes : ToggleTaskStatus(i)
    \/ \E i \in Indexes, p \in Priorities : ChangePriority(i, p)
    \/ \E i \in Indexes, yes \in BOOLEAN : DeleteTask(i, yes)
    \/ ArchiveDoneTasks

Spec == Init /\ [][Next]_vars

----------------------------------------------------------------------------
(* The store under the view controls *)

\* characters typed into the search
SearchChars == {"a", "B"}

NextView ==
    \/ LoadTasks
    \/ GetFilteredTasks
    \/ \E d \in Descriptions : AddTask(d)
    \/ \E i \in Indexes : ToggleTaskStatus(i)
    \/ ArchiveDoneTasks
    \/ CycleFilter
    \/ CycleSort
    \/ ToggleSortOrder
    \/ SetSearch
    \/ ClearSearch
    \/ \E c \in SearchChars : UpdateSearch(c)
    \/ BackspaceSearch
    \/ KeyDown

SpecView == Init /\ [][NextView]_vars

----------------------------------------------------------------------------
(* Descriptions at the 200-character cap *)

\* descriptions around the cap, with and without whitespace at the ends
LongDescriptions ==
    { <<>>,
      <<" ">>,
      <<"a">>,
      <<" ", "a", " ">>,
      Rep("a", MAX_DESCRIPTION_LENGTH),
      Rep("a", MAX_DESCRIPTION_LENGTH + 50),
      <<" ">> \o Rep("a", MAX_DESCRIPTION_LENGTH),
      Rep(" ", MAX_DESCRIPTION_LENGTH) \o <<"a">>,
      Rep("a", MAX_DESCRIPTION_LENGTH - 1) \o <<" ", "b">> }

NextDesc ==
    \/ LoadTasks
    \/ Tick
    \/ \E d \in LongDescriptions : AddTask(d)
    \/ \E i \in Indexes, d \in LongDescriptions : EditTask(i, d)

SpecDesc == Init /\ [][NextDesc]_vars

----------------------------------------------------------------------------
(* The store loaded from a file *)

\* number of elements of the loaded list
MaxRecords == 3

\* records save_tasks wrote: ids u7, u8, u9
GoodA ==
    JObject(ToDict([id |-> 7, description |-> <<"a">>, status |-> "PENDING",
                    priority |-> "HIGH", created_at |-> 1, due_date |-> NoDate,
                    updated_at |-> 1]))
GoodB ==
    JObject(ToDict([id |-> 8, description |-> <<"B">>, status |-> "DONE",
                    priority |-> "LOW", created_at |-> 0, due_date |-> <<1>>,
                    updated_at |-> 1]))
GoodC ==
    JObject(ToDict([id |-> 9, description |-> <<"a", "b">>, status |-> "PENDING",
                    priority |-> "MEDIUM", created_at |-> 0, due_date |-> NoDate,
                    updated_at |-> 0]))
GoodRecords == {GoodA, GoodB, GoodC}

\* the record u6 the variants below are made from
Base ==
    ToDict([id |-> 6, description |-> <<"B", "a">>, status |-> "DONE",
            priority |-> "LOW", created_at |-> 1, due_date |-> <<0>>,
            updated_at |-> 1])

\* a text that is no member name and no timestamp
Junk == JString(<<"b", "a", "b">>)

\* the keys of a record
Keys == {"id", "description", "status", "priority", "created_at", "due_date",
         "updated_at"}

\* the values put in place of a value of Base: null, a text that names
\* nothing, the empty text, a blank text, a number, a list
Replacements ==
    {JNull, Junk, JString(<<>>), JString(<<" ">>), JNumber(5), JArray(1)}

\* Base with one key missing or one value replaced (the id by null, the
\* empty text or a number only)
Variants ==
    {JObject([Base EXCEPT ![k] = v]) :
        k \in Keys \ {"id"}, v \in Replacements \cup {Absent}}
    \cup {JObject([Base EXCEPT !.id = v]) :
             v \in {Absent, JNull, JString(<<>>), JNumber(5)}}

\* elements that are not records
NonRecords == {JOther("number"), JOther("string"), JOther("null"), JOther("array")}

\* the lists of up to n different records of GoodRecords
GoodLists(n) ==
    {sq \in UNION {[1..m -> GoodRecords] : m \in 0..n} :
        \A i, j \in 1..Len(sq) : i # j => sq[i] # sq[j]}

\* seq with x put in at position k
InsertAt(seq, k, x) == SubSeq(seq, 1, k - 1) \o <<x>> \o SubSeq(seq, k, Len(seq))

\* the files the program may find: none, a text that is not JSON, a number,
\* a dict (iterating it yields its keys), a list of good records, and such a
\* list holding one variant or one element that is no record
Files ==
    {NoFile,
     [exists |-> TRUE, parses |-> FALSE, top |-> "array", records |-> <<>>],
     [exists |-> TRUE, parses |-> TRUE, top |-> "number", records |-> <<>>],
     [exists |-> TRUE, parses |-> TRUE, top |-> "object", records |-> <<>>],
     [exists |-> TRUE, parses |-> TRUE, top |-> "object",
      records |-> <<JOther("string")>>]}
    \cup {[exists |-> TRUE, parses |-> TRUE, top |-> "array", records |-> sq] :
             sq \in GoodLists(MaxRecords)}
    \cup UNION {{[exists |-> TRUE, parses |-> TRUE, top |-> "array",
                   records |-> InsertAt(sq, k, x)] :
                     k \in 1..(Len(sq) + 1), x \in Variants \cup NonRecords} :
                 sq \in GoodLists(MaxRecords - 1)}

\* TaskMaster.__init__ when the data file may hold anything
InitLoad ==
    /\ tasks = <<>>
    /\ selected_index = 0
    /\ filter = "ALL"
    /\ sort_by = "created"
    /\ sort_reverse = FALSE
    /\ search_query = <<>>
    /\ search_active = FALSE
    /\ message = NoMessage
    /\ file \in Files
    /\ now = 0
    /\ nextId = 1
    /\ pc = "start"

NextLoad ==
    \/ LoadTasks
    \/ Tick
    \/ GetFilteredTasks
    \/ \E i \in Indexes : ToggleTaskStatus(i)
    \/ \E i \in Indexes, yes \in BOOLEAN : DeleteTask(i, yes)
    \/ ArchiveDoneTasks

SpecLoad == InitLoad /\ [][NextLoad]_vars

----------------------------------------------------------------------------
(* The store loaded from a file that holds deadlines and repeated ids *)

\* records with a deadline: u7 pending and due at 0, u8 done and due at 1
DueA ==
    JObject(ToDict([id |-> 7, description |-> <<"a">>, status |-> "PENDING",
                    priority |-> "HIGH", created_at |-> 0, due_date |-> <<0>>,
                    updated_at |-> 0]))
DueB ==
    JObject(ToDict([id |-> 8, description |-> <<"B">>, status |-> "DONE",
                    priority |-> "LOW", created_at |-> 0, due_date |-> <<1>>,
                    updated_at |-> 0]))
\* a second record with the id u7, and a record u9 without a deadline
TwinA ==
    JObject(ToDict([id |-> 7, description |-> <<"a", "b">>, status |-> "DONE",
                    priority |-> "MEDIUM", created_at |-> 0, due_date |-> NoDate,
                    updated_at |-> 0]))
Plain ==
    JObject(ToDict([id |-> 9, description |-> <<"B", "a">>, status |-> "PENDING",
                    priority |-> "MEDIUM", created_at |-> 0, due_date |-> NoDate,
                    updated_at |-> 0]))
\* a record u6 due at 25, more than DUE_SOON_HOURS after the clock's 0
DueFar ==
    JObject(ToDict([id |-> 6, description |-> <<"a">>, status |-> "PENDING",
                    priority |-> "LOW", created_at |-> 0, due_date |-> <<25>>,
                    updated_at |-> 0]))
DeadlineRecords == {DueA, DueB, DueFar, TwinA, Plain}

\* lists of these records, a record or an id possibly more than once
DeadlineFiles ==
    {[exists |-> TRUE, parses |-> TRUE, top |-> "array", records |-> sq] :
        sq \in UNION {[1..m -> DeadlineRecords] : m \in 0..(MaxRecords - 1)}}

\* TaskMaster.__init__ when the data file holds one of these lists
InitDeadline ==
    /\ tasks = <<>>
    /\ selected_index = 0
    /\ filter = "ALL"
    /\ sort_by = "created"
    /\ sort_reverse = FALSE
    /\ search_query = <<>>
    /\ search_active = FALSE
    /\ message = NoMessage
    /\ file \in DeadlineFiles
    /\ now = 0
    /\ nextId = 1
    /\ pc = "start"

NextDeadline ==
    \/ LoadTasks
    \/ Tick
    \/ GetFilteredTasks
    \/ \E i \in Indexes : ToggleTaskStatus(i)
    \/ \E i \in Indexes, yes \in BOOLEAN : DeleteTask(i, yes)
    \/ ArchiveDoneTasks
    \/ CycleFilter
    \/ \E c \in SearchChars : UpdateSearch(c)
    \/ BackspaceSearch

SpecDeadline == InitDeadline /\ [][NextDeadline]_vars

----------------------------------------------------------------------------
(* The store when writing the file may fail *)

\* one text to add, one to edit in, one priority to set
SaveDescriptions == {<<"a">>}
EditDescriptions == {<<"B">>}
SavePriorities == {"HIGH"}

NextSave ==
    \/ LoadTasks
    \/ \E d \in SaveDescriptions, ok \in BOOLEAN : AddTaskSaving(d, ok)
    \/ \E i \in Indexes, d \in EditDescriptions, ok \in BOOLEAN :
           EditTaskSaving(i, d, ok)
    \/ \E i \in Indexes, ok \in BOOLEAN : ToggleTaskStatusSaving(i, ok)
    \/ \E i \in Indexes, p \in SavePriorities, ok \in BOOLEAN :
           ChangePrioritySaving(i, p, ok)
    \/ \E i \in Indexes, yes, ok \in BOOLEAN : DeleteTaskSaving(i, yes, ok)
    \/ \E ok \in BOOLEAN : ArchiveDoneTasksSaving(ok)

SpecSave == Init /\ [][NextSave]_vars

----------------------------------------------------------------------------
(* The program run again on the file it wrote *)

\* 'q' leaves run() and the program is started again: TaskMaster.__init__
\* builds a new store; the file stays as it was written
Quit ==
    /\ pc # "start"
    /\ pc' = "start"
    /\ tasks' = <<>>
    /\ selected_index' = 0
    /\ filter' = "ALL"
    /\ sort_by' = "created"
    /\ sort_reverse' = FALSE
    /\ search_query' = <<>>
    /\ search_active' = FALSE
    /\ message' = NoMessage
    /\ UNCHANGED <<file, now, nextId>>

NextRestart ==
    \/ LoadTasks
    \/ Tick
    \/ \E d \in SaveDescriptions : AddTask(d)
    \/ \E i \in Indexes, d \in EditDescriptions : EditTask(i, d)
    \/ \E i \in Indexes : ToggleTaskStatus(i)
    \/ \E i \in Indexes, p \in SavePriorities : ChangePriority(i, p)
    \/ Quit

SpecRestart == Init /\ [][NextRestart]_vars

----------------------------------------------------------------------------
(* TaskMaster.run: the body of the loop, the store driven by keys within one
   reading of the clock. The terminal set-up before the loop (lines 609-636)
   and what the draw_* calls put on the screen are not part of the model. *)

\* a clamp that lets the cursor rest one place past the last row
ClampedToLength(i, view) ==
    IF view = <<>> THEN 0 ELSE IF i < Len(view) THEN i ELSE Len(view)

\* if not filtered_tasks: 0, else min(self.selected_index, len(filtered_tasks) - 1)
Clamped(i, view) ==
    IF view = <<>> THEN 0 ELSE IF i < Len(view) - 1 THEN i ELSE Len(view) - 1

\* max(0, len(filtered_tasks) - 1)
LastRow(view) == IF Len(view) = 0 THEN 0 ELSE Len(view) - 1

\* the loop waits in getch: the top of the loop has computed the view and
\* clamped the cursor, so doing it again would change neither
AtGetch ==
    /\ pc = "loop"
    /\ tasks = Viewed
    /\ selected_index = Clamped(selected_index, View)

\* the top of the loop up to getch: get_filtered_tasks, the clamp of the
\* cursor and the four draw_* calls, of which draw_notification drops a
\* message shown for more than two seconds (expired)
Render(expired) ==
    /\ pc = "loop"
    /\ tasks' = Viewed
    /\ selected_index' = Clamped(selected_index, View)
    /\ message' = IF expired THEN NoMessage ELSE message
    /\ UNCHANGED <<pc, filter, sort_by, sort_reverse, search_query, search_active,
                   file, now, nextId>>

\* one pass over the loop that reads KEY_RESIZE, in either mode: the top of
\* the loop, then handle_resize, which clears and refreshes the screen
KeyResize(expired) ==
    /\ pc = "loop"
    /\ tasks' = Viewed
    /\ selected_index' = Clamped(selected_index, View)
    /\ message' = IF expired THEN NoMessage ELSE message
    /\ UNCHANGED <<pc, filter, sort_by, sort_reverse, search_query, search_active,
                   file, now, nextId>>

\* the keys that move the cursor, read alike in both modes
CursorKeys == {"KEY_UP", "KEY_DOWN", "KEY_HOME", "KEY_END"}

\* KEY_UP / KEY_DOWN / KEY_HOME / KEY_END ("k", "j" too outside search mode);
\* outside search mode KEY_DOWN and KEY_END call get_filtered_tasks again,
\* which finds the store as the top of the loop left it
CursorKey(key) ==
    /\ AtGetch
    /\ tasks' = Viewed
    /\ selected_index' =
           CASE key = "KEY_UP" ->
                    IF selected_index > 0 THEN selected_index - 1 ELSE selected_index
             [] key = "KEY_DOWN" ->
                    IF selected_index < Len(View) - 1
                    THEN selected_index + 1 ELSE selected_index
             [] key = "KEY_HOME" -> 0
             [] key = "KEY_END" -> LastRow(View)
    /\ UNCHANGED <<pc, filter, sort_by, sort_reverse, search_query, search_active,
                   message, file, now, nextId>>

\* "q" or "Q" outside search mode: break
KeyQuit ==
    /\ ~search_active
    /\ AtGetch
    /\ pc' = "done"
    /\ UNCHANGED <<tasks, selected_index, filter, sort_by, sort_reverse,
                   search_query, search_active, message, file, now, nextId>>

\* "n": get_user_input returns the typed text stripped, and add_task is
\* called if anything is left
KeyNew(typed) ==
    /\ ~search_active
    /\ AtGetch
    /\ IF Strip(typed) = <<>> THEN UNCHANGED vars ELSE AddTask(Strip(typed))

\* "d": delete_task(self.selected_index)
KeyDelete(yes) == ~search_active /\ AtGetch /\ DeleteTask(selected_index, yes)

\* " ": toggle_task_status(self.selected_index)
KeySpace == ~search_active /\ AtGetch /\ ToggleTaskStatus(selected_index)

\* Enter outside search mode: with the cursor on a task, ask for the new text
\* and call edit_task if anything is left of it
KeyEnter(typed) ==
    /\ ~search_active
    /\ AtGetch
    /\ IF InRange(selected_index, View) /\ Strip(typed) # <<>>
       THEN EditTask(selected_index, Strip(typed))
       ELSE UNCHANGED vars

\* what get_priority_selection returns: a priority, or None for Cancel
PriorityChoices == SavePriorities \cup {"None"}

\* "p": with the cursor on a task, ask for a priority and call change_priority
\* unless the menu was cancelled
KeyPriority(choice) ==
    /\ ~search_active
    /\ AtGetch
    /\ IF InRange(selected_index, View) /\ choice # "None"
       THEN ChangePriority(selected_index, choice)
       ELSE UNCHANGED vars

\* Tab outside search mode: cycle_filter
KeyTab == ~search_active /\ AtGetch /\ CycleFilter

\* "s": set_search
KeySearch == ~search_active /\ AtGetch /\ SetSearch

\* "r": cycle_sort, "R": toggle_sort_order
KeySort(shift) ==
    /\ ~search_active
    /\ AtGetch
    /\ IF shift THEN ToggleSortOrder ELSE CycleSort

\* "M": archive_done_tasks
KeyArchive == ~search_active /\ AtGetch /\ ArchiveDoneTasks

\* Escape in search mode: clear_search
SearchEscape == search_active /\ AtGetch /\ ClearSearch

\* Backspace in search mode: backspace_search
SearchBackspace == search_active /\ AtGetch /\ BackspaceSearch

\* Enter in search mode: the query stays, the mode ends
SearchEnter ==
    /\ search_active
    /\ AtGetch
    /\ search_active' = FALSE
    /\ UNCHANGED <<pc, tasks, selected_index, filter, sort_by, sort_reverse,
                   search_query, message, file, now, nextId>>

\* Tab in search mode: clear_search, then cycle_filter
SearchTab ==
    /\ search_active
    /\ AtGetch
    /\ search_query' = <<>>
    /\ search_active' = FALSE
    /\ filter' = NextFilter(filter)
    /\ selected_index' = 0
    /\ message' = "Filter"
    /\ UNCHANGED <<pc, tasks, sort_by, sort_reverse, file, now, nextId>>

\* a search mode in which "q" and "Q" are typed into the query like any letter
SearchKeyTypingQ(c) == search_active /\ AtGetch /\ UpdateSearch(c)

\* a printable character in search mode: "q" and "Q" break, any other is
\* passed to update_search
SearchKey(c) ==
    /\ search_active
    /\ AtGetch
    /\ IF c \in {"q", "Q"}
       THEN /\ pc' = "done"
            /\ UNCHANGED <<tasks, selected_index, filter, sort_by, sort_reverse,
                           search_query, search_active, message, file, now, nextId>>
       ELSE UpdateSearch(c)

\* printable characters typed in search mode
PrintableKeys == SearchChars \cup {"q", "Q"}

\* texts typed at the "New task: " prompt and at the "Edit" prompt
TypedNew == {<<" ">>, <<"a">>, <<"B">>}
TypedEdit == {<<>>, <<"B">>}

NextRun ==
    \/ LoadTasks
    \/ \E expired \in BOOLEAN : Render(expired)
    \/ \E expired \in BOOLEAN : KeyResize(expired)
    \/ \E key \in CursorKeys : CursorKey(key)
    \/ KeyQuit
    \/ \E typed \in TypedNew : KeyNew(typed)
    \/ \E yes \in BOOLEAN : KeyDelete(yes)
    \/ KeySpace
    \/ \E typed \in TypedEdit : KeyEnter(typed)
    \/ \E choice \in PriorityChoices : KeyPriority(choice)
    \/ KeyTab
    \/ KeySearch
    \/ \E shift \in BOOLEAN : KeySort(shift)
    \/ KeyArchive
    \/ SearchEscape
    \/ SearchBackspace
    \/ SearchEnter
    \/ SearchTab
    \/ \E c \in PrintableKeys : SearchKey(c)

SpecRun == Init /\ [][NextRun]_vars

----------------------------------------------------------------------------
(* Claims about get_filtered_tasks and add_task *)

ViewState == <<selected_index, filter, sort_by, sort_reverse, search_query,
               search_active>>

\* C1: get_filtered_tasks leaves the task sequence (membership, order, every
\* field) and the view state as they were.
C1_ViewIsPure ==
    [][GetFilteredTasks => UNCHANGED <<tasks, ViewState>>]_vars

\* C2: after add_task with a valid description the created task is at
\* position 0 of the resulting filtered view.
C2_NewTaskHeadsView ==
    [][\A d \in Descriptions :
          (ValidDescription(d) /\ AddTask(d)) =>
              FilteredTasks(tasks', filter', search_query', sort_by',
                            sort_reverse')[1].id = nextId]_vars

\* C3: add_task with a valid description puts exactly one new PENDING/MEDIUM
\* task at index 0 of the sequence, the tasks present before follow it in
\* their order, the filter becomes ALL, the query empty, search mode is left
\* and the cursor is 0.
C3_AddTaskEffect ==
    [][\A d \in Descriptions :
          (ValidDescription(d) /\ AddTask(d)) =>
              /\ Len(tasks') = Len(tasks) + 1
              /\ \A k \in 1..Len(tasks) : tasks'[k + 1] = tasks[k]
              /\ \A k \in 1..Len(tasks) : tasks[k].id # tasks'[1].id
              /\ tasks'[1].status = "PENDING"
              /\ tasks'[1].priority = "MEDIUM"
              /\ filter' = "ALL"
              /\ search_query' = <<>>
              /\ search_active' = FALSE
              /\ selected_index' = 0]_vars

\* C3 witness: add_task has just put a task in front of an older DONE task
\* (one a filter could have hidden), and the view is back to ALL, no query
C3_Witness ==
    /\ message = "Task added"
    /\ Len(tasks) >= 2
    /\ tasks[1].id = nextId - 1
    /\ \E k \in 2..Len(tasks) : tasks[k].status = "DONE"
    /\ filter = "ALL" /\ search_query = <<>> /\ ~search_active
    /\ sort_by # "created" /\ sort_reverse

----------------------------------------------------------------------------
(* Claims about descriptions *)

\* the number of whitespace characters d starts with, counted from the text
LeadCount(d) ==
    CHOOSE n \in 0..Len(d) :
        /\ n < Len(d) => d[n + 1] # " "
        /\ \A j \in 1..n : d[j] = " "

\* the number of whitespace characters d ends with
TrailCount(d) ==
    CHOOSE n \in 0..Len(d) :
        /\ n < Len(d) => d[Len(d) - n] # " "
        /\ \A j \in 1..n : d[Len(d) + 1 - j] = " "

\* the descriptions longer than 200 that construction accepts
OverlongDescriptions ==
    {d \in LongDescriptions : ValidDescription(d) /\ Len(d) > MAX_DESCRIPTION_LENGTH}

\* the descriptions whose trimmed text is longer than 200
TrimmedOverlongDescriptions ==
    {d \in LongDescriptions :
        Len(d) - LeadCount(d) - TrailCount(d) > MAX_DESCRIPTION_LENGTH}

\* s is the first 200 characters of d without its leading whitespace
IsCapOfTrimmed(s, d) ==
    LET lead == LeadCount(d)
    IN  /\ Len(s) = MAX_DESCRIPTION_LENGTH
        /\ lead + MAX_DESCRIPTION_LENGTH <= Len(d)
        /\ \A k \in 1..MAX_DESCRIPTION_LENGTH : s[k] = d[lead + k]

\* the task of ts with the id
TaskWithId(ts, id) == ts[CHOOSE k \in 1..Len(ts) : ts[k].id = id]

\* C4: every task's description holds at least one character that is not
\* whitespace.
C4_DescriptionNotBlank ==
    \A k \in 1..Len(tasks) :
        \E j \in 1..Len(tasks[k].description) : tasks[k].description[j] # " "

\* C5: constructing a task from a description longer than 200 stores exactly
\* 200 characters, the first 200 of the trimmed input.
C5_ConstructTruncates ==
    [][\A d \in OverlongDescriptions :
          AddTask(d) => IsCapOfTrimmed(tasks'[1].description, d)]_vars

\* C6: editing a task with a text whose trimmed length exceeds 200 stores
\* exactly 200 characters, the first 200 of the trimmed input.
C6_EditTruncates ==
    [][\A i \in Indexes, d \in TrimmedOverlongDescriptions :
          (InRange(i, View) /\ EditTask(i, d)) =>
              IsCapOfTrimmed(TaskWithId(tasks', View[i + 1].id).description, d)]_vars

\* C6 witness: an edit has stored a 200-character description cut out of a
\* longer text (the cut shows: it ends in the blank that preceded the rest)
C6_Witness ==
    /\ message = "Task updated"
    /\ \E k \in 1..Len(tasks) :
          /\ Len(tasks[k].description) = MAX_DESCRIPTION_LENGTH
          /\ tasks[k].description[MAX_DESCRIPTION_LENGTH] = " "
          /\ tasks[k].updated_at >= tasks[k].created_at

\* C7: every task's description is trimmed (no whitespace at either end)
\* and at most 200 characters long.
C7_DescriptionTrimmed ==
    \A k \in 1..Len(tasks) :
        LET s == tasks[k].description
        IN  /\ Len(s) <= MAX_DESCRIPTION_LENGTH
            /\ s # <<>> => (s[1] # " " /\ s[Len(s)] # " ")

\* C8: add_task or edit_task (of a task in the view) with an empty or
\* whitespace-only description changes no state but the message: tasks,
\* file and view state stay, and the error message is set.
C8_BlankDescriptionRejected ==
    [][\A i \in Indexes, d \in Descriptions :
          ( /\ ~ValidDescription(d)
            /\ AddTask(d) \/ (InRange(i, View) /\ EditTask(i, d)) ) =>
              /\ UNCHANGED <<tasks, file, ViewState>>
              /\ message' = "Task description cannot be empty"]_vars

----------------------------------------------------------------------------
(* Claims about the sort *)

\* TaskFilter
Filters == {"ALL", "PENDING", "DONE"}

\* SORT_OPTIONS
SortOptions == {"created", "priority", "alpha"}

\* the search queries of up to MaxQuery characters
Queries == UNION {[1..n -> SearchChars] : n \in 0..MaxQuery}

\* s back to front
Reverse(s) == [i \in 1..Len(s) |-> s[Len(s) + 1 - i]]

\* no two tasks of v have the same sort key
DistinctKeys(v, sb) ==
    \A i, j \in 1..Len(v) : i # j => SortKey(v[i], sb) # SortKey(v[j], sb)

\* C9 as stated: the reversed view is exactly the non-reversed view back to
\* front, tasks with equal sort keys included.
C9_ReverseIsMirror ==
    \A f \in Filters, q \in Queries, sb \in SortOptions :
        FilteredTasks(tasks, f, q, sb, TRUE)
            = Reverse(FilteredTasks(tasks, f, q, sb, FALSE))

\* C9 amended: the reversed view holds the tasks of the non-reversed view in
\* descending order of the sort key; tasks whose keys tie keep their store
\* order; when no two keys tie it is exactly the non-reversed view back to
\* front.
C9_ReverseDescendingStable ==
    \A f \in Filters, q \in Queries, sb \in SortOptions :
        LET fwd == FilteredTasks(tasks, f, q, sb, FALSE)
            bwd == FilteredTasks(tasks, f, q, sb, TRUE)
        IN  /\ Len(bwd) = Len(fwd)
            /\ \A i \in 1..Len(fwd) : \E j \in 1..Len(bwd) : bwd[j] = fwd[i]
            /\ \A i, j \in 1..Len(bwd) :
                  i < j =>
                      /\ ~KeyLess(SortKey(bwd[i], sb), SortKey(bwd[j], sb))
                      /\ SortKey(bwd[i], sb) = SortKey(bwd[j], sb) =>
                             FirstWithId(tasks, bwd[i].id) < FirstWithId(tasks, bwd[j].id)
            /\ DistinctKeys(fwd, sb) => bwd = Reverse(fwd)

\* C9 witness: the store holds two tasks whose keys tie and the reversed
\* view lists them in the same order as the non-reversed one
C9_Witness ==
    /\ Len(tasks) >= 2
    /\ ~DistinctKeys(tasks, "created")
    /\ FilteredTasks(tasks, "ALL", <<>>, "created", TRUE)
           = FilteredTasks(tasks, "ALL", <<>>, "created", FALSE)
    /\ \E sb \in SortOptions :
          /\ DistinctKeys(tasks, sb)
          /\ FilteredTasks(tasks, "ALL", <<>>, sb, TRUE)
                 # FilteredTasks(tasks, "ALL", <<>>, sb, FALSE)

\* C10: in every non-reversed view, whatever the sort key, the filter and
\* the search query, every PENDING task comes before every DONE task.
C10_PendingBeforeDone ==
    \A f \in Filters, q \in Queries, sb \in SortOptions :
        LET v == FilteredTasks(tasks, f, q, sb, FALSE)
        IN  \A i, j \in 1..Len(v) :
                (IsPending(v[i]) /\ IsDone(v[j])) => i < j

\* C10 witness: sorted by creation time, a PENDING task stands before a DONE
\* task that was created earlier
C10_Witness ==
    LET v == FilteredTasks(tasks, "ALL", <<>>, "created", FALSE)
    IN  \E i, j \in 1..Len(v) :
            /\ i < j
            /\ IsPending(v[i]) /\ IsDone(v[j])
            /\ v[j].created_at < v[i].created_at

\* text a sorts before text b: at the first position where they differ a
\* has ended or holds the smaller code point
TextBefore(a, b) ==
    \E k \in 1..Len(b) :
        /\ k <= Len(a) + 1
        /\ \A m \in 1..(k - 1) : a[m] = b[m]
        /\ k = Len(a) + 1 \/ Ord(a[k]) < Ord(b[k])

\* x may precede y under the sort key sb
InOrder(x, y, sb) ==
    CASE sb = "created" -> x.created_at <= y.created_at
      [] sb = "priority" ->
            \/ PriorityValue(x.priority) < PriorityValue(y.priority)
            \/ x.priority = y.priority /\ x.created_at <= y.created_at
      [] sb = "alpha" ->
            \/ TextBefore(Lower(x.description), Lower(y.description))
            \/ /\ Lower(x.description) = Lower(y.description)
               /\ x.created_at <= y.created_at

\* C11: within a status bucket of a non-reversed view the tasks are in the
\* order of the sort key (created: created_at; priority: ordinal, then
\* created_at; alpha: lower-cased description, then created_at), and tasks
\* tied on all of it keep their store order.
C11_OrderedWithinBucket ==
    \A f \in Filters, q \in Queries, sb \in SortOptions :
        LET v == FilteredTasks(tasks, f, q, sb, FALSE)
        IN  \A i, j \in 1..Len(v) :
                (i < j /\ v[i].status = v[j].status) =>
                    /\ InOrder(v[i], v[j], sb)
                    /\ InOrder(v[j], v[i], sb) =>
                           FirstWithId(tasks, v[i].id) < FirstWithId(tasks, v[j].id)

\* C11 witness: sorted by text, "a" stands before a "B" of the same status
\* that was created earlier and is in front of it in the store
C11_Witness ==
    LET v == FilteredTasks(tasks, "ALL", <<>>, "alpha", FALSE)
    IN  \E i, j \in 1..Len(v) :
            /\ i < j
            /\ v[i].status = v[j].status
            /\ v[i].description = <<"a">> /\ v[j].description = <<"B">>
            /\ v[j].created_at < v[i].created_at
            /\ FirstWithId(tasks, v[j].id) < FirstWithId(tasks, v[i].id)

----------------------------------------------------------------------------
(* Claims about the index-addressed operations *)

SameStatuses(ts) ==
    /\ Len(ts) = Len(tasks)
    /\ \A k \in 1..Len(tasks) : TaskWithId(ts, tasks[k].id).status = tasks[k].status

\* the store after toggle_task_status(i) in the current view state
ToggledOnce(i) ==
    Toggled(tasks, i, filter, search_query, sort_by, sort_reverse, now)

\* the store after toggle_task_status(i) called twice in a row
ToggledTwice(i) ==
    Toggled(ToggledOnce(i), i, filter, search_query, sort_by, sort_reverse, now)

\* the task the first toggle_task_status(i) addresses is at position i of the
\* view again when the second call is made
StaysAt(i) ==
    LET next == FilteredTasks(ToggledOnce(i), filter, search_query, sort_by,
                              sort_reverse)
    IN  InRange(i, next) /\ next[i + 1].id = View[i + 1].id

\* C13 as stated: toggle_task_status(i) twice in a row with the same i
\* leaves every task with the status it had.
C13_DoubleToggleRestores ==
    \A i \in Indexes : SameStatuses(ToggledTwice(i))

\* C13 amended: toggle_task_status(i) twice in a row restores every status
\* exactly when i is outside the view or the task toggled first is still at
\* position i of the view for the second call.
C13_DoubleToggleRestoresInPlace ==
    \A i \in Indexes :
        SameStatuses(ToggledTwice(i)) <=> (~InRange(i, View) \/ StaysAt(i))

\* C13 witness: in a view of two tasks one can be toggled twice in place
C13_Witness ==
    /\ Len(View) >= 2
    /\ \E i \in Indexes :
          InRange(i, View) /\ StaysAt(i) /\ SameStatuses(ToggledTwice(i))
    /\ \E i \in Indexes : InRange(i, View) /\ ~StaysAt(i)

\* C14: archive_done_tasks removes every DONE task and nothing else, keeps
\* the PENDING tasks in their order and reports how many it removed; without
\* a DONE task it changes nothing, so a second call right after the first
\* leaves the sequence as it is.
C14_ArchiveRemovesDone ==
    [][ArchiveDoneTasks =>
          LET removed == Len(tasks) - Len(tasks')
          IN  /\ \A k \in 1..Len(tasks') : IsPending(tasks'[k])
              /\ \A k \in 1..Len(tasks) :
                    IsPending(tasks[k]) => \E j \in 1..Len(tasks') : tasks'[j] = tasks[k]
              /\ removed = Cardinality({k \in 1..Len(tasks) : IsDone(tasks[k])})
              /\ \A j, m \in 1..Len(tasks') :
                    j < m => \E k, n \in 1..Len(tasks) :
                                 k < n /\ tasks[k] = tasks'[j] /\ tasks[n] = tasks'[m]
              /\ IF removed > 0
                 THEN message' = ArchivedMessage(removed)
                 ELSE /\ message' = "No done tasks to archive"
                      /\ UNCHANGED <<tasks, file, ViewState>>
              /\ Archived(tasks') = tasks']_vars

\* C14 witness: one DONE task has been archived out of a store of three and
\* the two PENDING tasks are left, not in the order the view sorts them
C14_Witness ==
    /\ message = ArchivedMessage(1)
    /\ Len(tasks) = 2
    /\ IsPending(tasks[1]) /\ IsPending(tasks[2])
    /\ tasks[2].created_at < tasks[1].created_at
    /\ file = Saved(tasks)

\* C15: delete_task(i) with i in the view and the confirmation given removes
\* exactly the task displayed at position i and keeps the other tasks in
\* their order; with the confirmation declined no task is removed and
\* nothing is persisted.
C15_DeleteRemovesDisplayedTask ==
    [][\A i \in Indexes, yes \in BOOLEAN :
          (InRange(i, View) /\ DeleteTask(i, yes)) =>
              IF yes
              THEN /\ Len(tasks') = Len(tasks) - 1
                   /\ tasks' = SelectSeq(tasks, LAMBDA t : t.id # View[i + 1].id)
              ELSE /\ Len(tasks') = Len(tasks)
                   /\ \A k \in 1..Len(tasks) : \E j \in 1..Len(tasks') : tasks'[j] = tasks[k]
                   /\ file' = file]_vars

\* C16: toggle_task_status, edit_task, change_priority or delete_task with an
\* index outside the view does nothing: the task sequence (membership, order,
\* fields), the file and the message stay as they were.
C16_OutOfRangeIsNoOp ==
    [][\A i \in Indexes, d \in Descriptions, p \in Priorities, yes \in BOOLEAN :
          ( /\ ~InRange(i, View)
            /\ \/ ToggleTaskStatus(i)
               \/ EditTask(i, d)
               \/ ChangePriority(i, p)
               \/ DeleteTask(i, yes) ) =>
              UNCHANGED <<tasks, file, message, ViewState>>]_vars

----------------------------------------------------------------------------
(* Claims about the view controls *)

\* C17: cycle_filter, cycle_sort, toggle_sort_order, set_search, clear_search,
\* update_search and backspace_search each set the cursor selected_index to 0.
C17_ViewControlsResetCursor ==
    [][( \/ CycleFilter
         \/ CycleSort
         \/ ToggleSortOrder
         \/ SetSearch
         \/ ClearSearch
         \/ \E c \in SearchChars : UpdateSearch(c)
         \/ BackspaceSearch ) => selected_index' = 0]_vars

----------------------------------------------------------------------------
(* Claims about the file *)

\* the task of the store with the id is in ts with the fields given by want
StandsIn(ts, id, want(_)) ==
    \E k \in 1..Len(ts) : ts[k].id = id /\ want(ts[k])

\* C18: when save_tasks cannot write the file during add, delete, toggle,
\* edit, change_priority or archive, the change made in memory stands, the
\* program keeps running and the message left by the operation is the
\* save-failure warning.
C18_SaveFailureIsReported ==
    [][\A i \in Indexes, d \in Descriptions, p \in Priorities :
          LET id == View[i + 1].id
              hit == InRange(i, View)
          IN  /\ (ValidDescription(d) /\ AddTaskSaving(d, FALSE)) =>
                     /\ StandsIn(tasks', nextId, LAMBDA t : TRUE)
                     /\ message' = "Error saving tasks" /\ pc' = "loop"
              /\ (hit /\ ValidDescription(d) /\ EditTaskSaving(i, d, FALSE)) =>
                     /\ StandsIn(tasks', id,
                                 LAMBDA t : t.description = UpdatedDescription(d))
                     /\ message' = "Error saving tasks" /\ pc' = "loop"
              /\ (hit /\ ToggleTaskStatusSaving(i, FALSE)) =>
                     /\ StandsIn(tasks', id, LAMBDA t : t.status # View[i + 1].status)
                     /\ message' = "Error saving tasks" /\ pc' = "loop"
              /\ (hit /\ ChangePrioritySaving(i, p, FALSE)) =>
                     /\ StandsIn(tasks', id, LAMBDA t : t.priority = p)
                     /\ message' = "Error saving tasks" /\ pc' = "loop"
              /\ (hit /\ DeleteTaskSaving(i, TRUE, FALSE)) =>
                     /\ ~StandsIn(tasks', id, LAMBDA t : TRUE)
                     /\ message' = "Error saving tasks" /\ pc' = "loop"
              /\ ((\E k \in 1..Len(tasks) : IsDone(tasks[k]))
                      /\ ArchiveDoneTasksSaving(FALSE)) =>
                     /\ \A k \in 1..Len(tasks') : IsPending(tasks'[k])
                     /\ message' = "Error saving tasks" /\ pc' = "loop"]_vars

\* v is the name of a member of the enum
IsName(v, names) == v.type = "string" /\ \E nm \in names : NameText(nm) = v.text

\* v is a timestamp text
IsTimestamp(v) == v.type = "string" /\ IsIsoFormat(v.text)

\* the keys a record must hold
RequiredKeys == {"id", "description", "status", "created_at", "updated_at"}

\* a required key is missing from the record
MissesRequired(d) == \E k \in RequiredKeys : d[k].type = "absent"

\* the status or the priority is there and names no member
UnknownName(d) ==
    \/ d.status.type # "absent" /\ ~IsName(d.status, StatusNames)
    \/ d.priority.type # "absent" /\ ~IsName(d.priority, PriorityNames)

\* a timestamp is there (the due date: there and not null) and is no timestamp
BadTimestamp(d) ==
    \/ \E k \in {"created_at", "updated_at"} :
           d[k].type # "absent" /\ ~IsTimestamp(d[k])
    \/ d.due_date.type \notin {"absent", "null"} /\ ~IsTimestamp(d.due_date)

\* the id or the description is there and is no text
WrongType(d) ==
    \/ d.id.type \notin {"absent", "string"}
    \/ d.description.type \notin {"absent", "string"}

\* an element of the list that is no record, or a record that misses a
\* required key, names no enum member, holds no timestamp where one belongs
\* or holds a value of the wrong type
Malformed(e) ==
    \/ e.type # "object"
    \/ MissesRequired(e.items)
    \/ UnknownName(e.items)
    \/ BadTimestamp(e.items)
    \/ WrongType(e.items)

\* C19: loading a file that is not JSON or whose list holds a malformed
\* record never raises out of load_tasks: the program goes on, the store is
\* empty and the warning message is set.
C19_BadFileLoadsEmpty ==
    [][( /\ LoadTasks
         /\ file.exists
         /\ \/ ~file.parses
            \/ /\ file.top = "array"
               /\ \E k \in 1..Len(file.records) : Malformed(file.records[k]) ) =>
           /\ pc' = "loop"
           /\ tasks' = <<>>
           /\ message' = "Error loading tasks"]_vars

\* C20: Task.from_dict fails whenever a required key (id, description,
\* status, created_at, updated_at) is missing, the status or the priority
\* names no member, or a timestamp is not a valid timestamp; a missing
\* priority gives MEDIUM and a missing or null due date gives no deadline.
C20_FromDictRejectsMalformed ==
    \A k \in 1..Len(file.records) :
        LET e == file.records[k]
            d == e.items
        IN  e.type = "object" =>
                /\ (MissesRequired(d) \/ UnknownName(d) \/ BadTimestamp(d)) =>
                       FromDictError(e) # "none"
                /\ (FromDictError(e) = "none" /\ d.priority.type = "absent") =>
                       FromDict(e, now, nextId).priority = "MEDIUM"
                /\ (FromDictError(e) = "none" /\ d.due_date.type \in {"absent", "null"}) =>
                       FromDict(e, now, nextId).due_date = NoDate

----------------------------------------------------------------------------
(* Claims about the round trip through the file *)

\* from_dict(to_dict(task)) returns and gives back the four fields
RoundTrips(task) ==
    LET e == JObject(ToDict(task))
    IN  /\ FromDictError(e) = "none"
        /\ LET back == FromDict(e, now, nextId)
           IN  /\ back.description = task.description
               /\ back.status = task.status
               /\ back.priority = task.priority
               /\ back.due_date = task.due_date

\* C21: for every task of the store, however it was constructed and
\* mutated, from_dict(to_dict(t)) reproduces t's description, status,
\* priority and due date.
C21_RoundTripKeepsFields ==
    \A k \in 1..Len(tasks) : RoundTrips(tasks[k])

\* C22: loading the file save_tasks wrote gives the saved tasks back in the
\* same order, each with the id, the created_at and the updated_at its
\* record holds.
C22_SaveLoadRoundTrip ==
    [][(LoadTasks /\ file.exists) =>
           /\ Len(tasks') = Len(file.records)
           /\ \A k \in 1..Len(file.records) :
                  LET r == file.records[k].items
                  IN  /\ tasks'[k].id = IdOf(r.id)
                      /\ tasks'[k].created_at = FromIsoFormat(r.created_at.text)
                      /\ tasks'[k].updated_at = FromIsoFormat(r.updated_at.text)]_vars

\* a step of a mutating operation that goes through: a valid text, an index
\* inside the view, a confirmed deletion, an archive with a DONE task
Mutates ==
    \/ \E d \in Descriptions : ValidDescription(d) /\ AddTask(d)
    \/ /\ message' \in {"Task updated", "Task completed", "Task reopened",
                        "Priority set", "Deleted"}
       /\ LET view == View
          IN  \E i \in Indexes :
                  /\ InRange(i, view)
                  /\ \/ \E d \in Descriptions : ValidDescription(d) /\ EditTask(i, d)
                     \/ ToggleTaskStatus(i)
                     \/ \E p \in Priorities : ChangePriority(i, p)
                     \/ DeleteTask(i, TRUE)
    \/ (\E k \in 1..Len(tasks) : IsDone(tasks[k])) /\ ArchiveDoneTasks

\* C23: right after a mutating operation that goes through with a writable
\* file, the file holds one record per task of the store, in store order,
\* each the serialization of its task.
C23_FileMirrorsStore ==
    [][Mutates =>
           /\ file'.exists /\ file'.parses /\ file'.top = "array"
           /\ Len(file'.records) = Len(tasks')
           /\ \A k \in 1..Len(tasks') :
                  file'.records[k] = JObject(ToDict(tasks'[k]))]_vars

\* two tasks, the second mutated after it was created, a priority just set
C23_Witness ==
    /\ message = "Priority set"
    /\ Len(tasks) = 2
    /\ Len(file.records) = 2
    /\ tasks[1].id # tasks[2].id
    /\ tasks[2].updated_at > tasks[2].created_at
    /\ file.records[2].items.updated_at = JString(IsoFormat(tasks[2].updated_at))

----------------------------------------------------------------------------
(* Claims about ids and timestamps *)

\* the ids held by a list of tasks
IdsOf(ts) == {ts[k].id : k \in 1..Len(ts)}

\* C24: after loading any file load_tasks accepts and any operations, no two
\* tasks of the store share an id, and the ids in the store after an
\* operation are ids that were in it before or the fresh id of a new task.
C24_IdsUniqueAndFixed ==
    /\ [](\A i, j \in 1..Len(tasks) : i # j => tasks[i].id # tasks[j].id)
    /\ [][pc = "loop" => IdsOf(tasks') \subseteq IdsOf(tasks) \cup {nextId}]_vars

\* C25: every task of the store has updated_at >= created_at, the two being
\* equal for every task load_tasks has just built, whether the task was
\* created by add_task or loaded from the file.
C25_UpdatedNotBeforeCreated ==
    /\ [](\A k \in 1..Len(tasks) : tasks[k].updated_at >= tasks[k].created_at)
    /\ [][LoadTasks =>
              \A k \in 1..Len(tasks') : tasks'[k].updated_at = tasks'[k].created_at]_vars

----------------------------------------------------------------------------
(* Claims about deadlines and statistics *)

\* the dates a deadline may be set to, and no deadline
DueDates == {NoDate} \cup {<<t>> : t \in 0..MaxTime}

\* a step of any operation or view control the run loop offers
Intent == Next \/ NextView

\* C26: the store offers a set-deadline operation: for every task of the
\* store and every other date (or none), the run loop can take a step that
\* gives the task that due date, sets its updated_at to the current time and
\* writes the store to the file.
C26_SetDeadlineOffered ==
    pc = "loop" =>
        \A k \in 1..Len(tasks) :
            \A due \in DueDates \ {tasks[k].due_date} :
                ENABLED ( /\ Intent
                          /\ \E j \in 1..Len(tasks') :
                                 tasks'[j] = SetDueDate(tasks[k], due, now)
                          /\ file' = Saved(tasks') )

\* how many tasks of the store satisfy a test
CountOf(Test(_)) == Cardinality({k \in 1..Len(tasks) : Test(tasks[k])})

\* C27: get_stats returns (total, pending, done, overdue) over the whole
\* store whatever the filter and the query: the number of tasks, of PENDING
\* tasks, of DONE tasks and of tasks for which is_overdue() holds; so
\* total = pending + done and overdue <= pending.
C27_StatsCountFullStore ==
    pc = "loop" =>
        /\ GetStats[1] = Len(tasks)
        /\ GetStats[2] = CountOf(IsPending)
        /\ GetStats[3] = CountOf(IsDone)
        /\ GetStats[4] = CountOf(LAMBDA t : IsOverdue(t, now))
        /\ GetStats[1] = GetStats[2] + GetStats[3]
        /\ GetStats[4] <= GetStats[2]

\* a filter and a query that hide part of a store holding an overdue task
\* and a done task
C27_Witness ==
    /\ pc = "loop"
    /\ filter = "DONE"
    /\ search_query # <<>>
    /\ Len(View) < Len(tasks)
    /\ CountOf(LAMBDA t : IsOverdue(t, now)) = 1
    /\ CountOf(IsDone) = 1

----------------------------------------------------------------------------
(* Claims about what the view holds *)

\* how often a task occurs in a list
Occurrences(ts, task) == Cardinality({k \in 1..Len(ts) : ts[k] = task})

\* the text q occurs in the text s when case is ignored
OccursIgnoringCase(q, s) ==
    \E off \in 0..(Len(s) - Len(q)) :
        \A j \in 1..Len(q) : LowerChar(s[off + j]) = LowerChar(q[j])

\* the task passes filter f and query q
Passes(task, f, q) ==
    /\ \/ f = "ALL"
       \/ f = "PENDING" /\ task.status = "PENDING"
       \/ f = "DONE" /\ task.status = "DONE"
    /\ q # <<>> => OccursIgnoringCase(q, task.description)

\* C28: the view holds exactly the tasks of the store that pass the active
\* filter and, when the query is not empty, whose description contains the
\* query whatever the case; each of them as often as the store holds it.
C28_ViewIsFilterAndSearch ==
    pc = "loop" =>
        /\ \A k \in 1..Len(tasks) :
               Occurrences(View, tasks[k]) =
                   IF Passes(tasks[k], filter, search_query)
                   THEN Occurrences(tasks, tasks[k]) ELSE 0
        /\ \A k \in 1..Len(View) : Occurrences(tasks, View[k]) > 0

\* a PENDING filter and the query "B" over a store with a done task and a
\* pending task whose description holds a small b
C28_Witness ==
    /\ pc = "loop"
    /\ filter = "PENDING"
    /\ search_query = <<"B">>
    /\ Len(tasks) = 2
    /\ Len(View) = 1
    /\ View[1].description = <<"a", "b">>
    /\ \E k \in 1..2 : tasks[k].status = "DONE"

\* the tasks the view holds under filter f and query q, as a set
ViewSet(f, q) ==
    LET view == FilteredTasks(tasks, f, q, sort_by, sort_reverse)
    IN  {view[k] : k \in 1..Len(view)}

C30_DoneIsNeverDue ==
    \A k \in 1..Len(tasks) :
        tasks[k].status = "DONE" =>
            \A t \in 0..MaxTime :
                /\ ~IsOverdue(tasks[k], t)
                /\ ~IsDueSoon(tasks[k], t, DUE_SOON_HOURS)

\* a task whose deadline has passed was just completed, next to a done task
\* whose deadline is still ahead
C30_Witness ==
    /\ message = "Task completed"
    /\ now = 1
    /\ \E k \in 1..Len(tasks) :
           tasks[k].status = "DONE" /\ tasks[k].due_date = <<0>>
    /\ \E k \in 1..Len(tasks) :
           tasks[k].status = "DONE" /\ tasks[k].due_date = <<1>>

\* the buckets a task falls in at clock reading t, by the rules of each
Buckets(task, t) ==
    {b \in {"none", "done", "overdue", "soon", "normal"} :
        CASE b = "none" -> task.due_date = NoDate
          [] b = "done" -> task.due_date # NoDate /\ task.status = "DONE"
          [] b = "overdue" ->
                 /\ task.due_date # NoDate /\ task.status # "DONE"
                 /\ t > task.due_date[1]
          [] b = "soon" ->
                 /\ task.due_date # NoDate /\ task.status # "DONE"
                 /\ t < task.due_date[1] /\ task.due_date[1] <= t + 24
          [] b = "normal" ->
                 /\ task.due_date # NoDate /\ task.status # "DONE"
                 /\ (task.due_date[1] = t \/ task.due_date[1] > t + 24)}

\* C31: get_deadline_status returns the one bucket the priority order
\* gives: none without a due date, else done for a DONE task, else overdue
\* when now > due_date, else soon when now < due_date <= now + 24h, else
\* normal (due exactly now or more than 24h ahead); overdue and soon never
\* hold together.
C31_DeadlineBucket ==
    \A k \in 1..Len(tasks) :
        /\ Buckets(tasks[k], now) = {GetDeadlineStatus(tasks[k], now)}
        /\ ~(IsOverdue(tasks[k], now) /\ IsDueSoon(tasks[k], now, DUE_SOON_HOURS))

\* a pending task due exactly now next to a pending task due more than 24h
\* ahead
C31_Witness ==
    /\ pc = "loop"
    /\ \E k \in 1..Len(tasks) :
           tasks[k].status = "PENDING" /\ tasks[k].due_date = <<now>>
    /\ \E k \in 1..Len(tasks) :
           tasks[k].status = "PENDING" /\ tasks[k].due_date # NoDate
               /\ tasks[k].due_date[1] > now + 24

----------------------------------------------------------------------------
(* Claims about what the operations leave alone *)

\* C32: archive_done_tasks leaves the filter, the sort key, the sort
\* direction and the search query as they were; of the view state it only
\* sets the cursor, to 0, when it archives a task.
C32_ArchiveKeepsView ==
    [][ArchiveDoneTasks =>
           /\ filter' = filter
           /\ sort_by' = sort_by
           /\ sort_reverse' = sort_reverse
           /\ search_query' = search_query
           /\ search_active' = search_active
           /\ selected_index' =
                  IF \E k \in 1..Len(tasks) : IsDone(tasks[k]) THEN 0
                  ELSE selected_index]_vars

\* a task was archived under a DONE filter, a descending sort by priority
\* and a typed query
C32_Witness ==
    /\ message = "Archived 1 done task(s)"
    /\ filter = "DONE"
    /\ sort_by = "priority"
    /\ sort_reverse
    /\ search_query # <<>>
    /\ selected_index = 0
    /\ Len(tasks) = 1

\* the filter and the sort key that come after each, as the cycles are named
FilterAfter == [ALL |-> "PENDING", PENDING |-> "DONE", DONE |-> "ALL"]
SortAfter == [created |-> "priority", priority |-> "alpha", alpha |-> "created"]

\* C33: cycle_filter goes ALL -> PENDING -> DONE -> ALL and cycle_sort goes
\* created -> priority -> alpha -> created, each coming back after three
\* steps and not before; neither changes the tasks, the search query or the
\* sort direction.
C33_CyclesOfThree ==
    [][ /\ CycleFilter =>
               /\ filter' = FilterAfter[filter]
               /\ NextFilter(filter') # filter
               /\ NextFilter(NextFilter(filter')) = filter
               /\ tasks' = tasks /\ search_query' = search_query
               /\ sort_reverse' = sort_reverse
        /\ CycleSort =>
               /\ sort_by' = SortAfter[sort_by]
               /\ NextSort(sort_by') # sort_by
               /\ NextSort(NextSort(sort_by')) = sort_by
               /\ tasks' = tasks /\ search_query' = search_query
               /\ sort_reverse' = sort_reverse ]_vars

\* the sort key has just come round to created, the filter stands at DONE,
\* over two tasks, a typed query and a descending sort
C33_Witness ==
    /\ message = "Sort by"
    /\ sort_by = "created"
    /\ filter = "DONE"
    /\ Len(tasks) = 2
    /\ search_query # <<>>
    /\ sort_reverse

\* the fields of a task
TaskFields == {"id", "description", "status", "priority", "created_at",
               "due_date", "updated_at"}

\* task b is task a but for field g and updated_at
SameBut(a, b, g) == \A f \in TaskFields \ {g, "updated_at"} : a[f] = b[f]

\* the step replaced task a of the store by a task that differs from it in
\* field g and updated_at only, and kept every other task
Touches(a, g) ==
    \E j \in 1..Len(tasks') :
        /\ SameBut(a, tasks'[j], g)
        /\ Len(tasks') = Len(tasks)
        /\ \A k \in 1..Len(tasks) :
               Occurrences(tasks', tasks[k]) =
                   Occurrences(tasks, tasks[k])
                       - (IF tasks[k] = a THEN 1 ELSE 0)
                       + (IF tasks[k] = tasks'[j] THEN 1 ELSE 0)

\* C34: a mutation of an existing task touches one field group of one task:
\* toggle_task_status the status, edit_task the description, change_priority
\* the priority (each with updated_at) of the task addressed in the view;
\* its id and created_at, every other task and the tasks the store holds stay
\* as they were.
C34_OneFieldOfOneTask ==
    [][ /\ message' \in {"Task updated", "Task completed", "Task reopened",
                         "Priority set"}
        => LET view == View
           IN  \A i \in Indexes :
                   InRange(i, view) =>
                       /\ ToggleTaskStatus(i) => Touches(view[i + 1], "status")
                       /\ \A d \in Descriptions :
                              (ValidDescription(d) /\ EditTask(i, d)) =>
                                  Touches(view[i + 1], "description")
                       /\ \A p \in Priorities :
                              ChangePriority(i, p) =>
                                  Touches(view[i + 1], "priority") ]_vars

\* C35: the view does not depend on the views computed before it: whatever
\* other filter, query, sort key and direction a view was computed under
\* first, get_filtered_tasks under the current filter, query, sort key and
\* direction returns the same ordered list as it does without that detour.
C35_ViewIsHistoryFree ==
    pc = "loop" =>
        \A f \in Filters, q \in Queries, sb \in SortOptions, rev \in BOOLEAN :
            FilteredTasks(StoreAfterView(tasks, f, q, sb, rev),
                          filter, search_query, sort_by, sort_reverse) = View

----------------------------------------------------------------------------
(* Claims about the run loop *)

\* C36: the pass over the run loop that processes KEY_RESIZE, in normal and
\* in search mode, leaves the task sequence (membership, order, fields), the
\* persisted file and the filter, sort and search state as they were before it
C36_ResizeTouchesNothing ==
    [][\A expired \in BOOLEAN :
           KeyResize(expired) =>
               /\ tasks' = tasks
               /\ file' = file
               /\ <<filter, sort_by, sort_reverse, search_query, search_active>>' =
                      <<filter, sort_by, sort_reverse, search_query, search_active>>]_vars

\* C37: whenever the loop has rendered and waits for a key, the cursor
\* satisfies 0 <= selected_index <= max(0, len(view) - 1), so on a view that
\* is not empty the index handed to delete, toggle, edit and change-priority
\* is the index of a task in the view
C37_CursorInView ==
    AtGetch =>
        /\ 0 <= selected_index
        /\ selected_index <= (IF Len(View) > 1 THEN Len(View) - 1 ELSE 0)
        /\ View # <<>> => InRange(selected_index, View)

\* two tasks, one of them completed from the pending view, which now shows
\* the other alone under the cursor
C37_Witness ==
    /\ AtGetch
    /\ filter = "PENDING"
    /\ message = "Task completed"
    /\ Len(tasks) = 2
    /\ Len(View) = 1
    /\ selected_index = 0

\* C38: in a run that starts with an empty store and no file, after any
\* sequence of keys every task is without a due date, get_stats reports no
\* overdue task and every task's deadline bucket is "none"
C38_NoDeadlineEverSet ==
    pc \in {"loop", "done"} =>
        /\ \A k \in 1..Len(tasks) :
               /\ tasks[k].due_date = NoDate
               /\ GetDeadlineStatus(tasks[k], now) = "none"
        /\ GetStats[4] = 0

\* two tasks after the keys that add, edit, complete and reprioritise
C38_Witness ==
    /\ pc = "loop"
    /\ Len(tasks) = 2
    /\ \E k \in 1..2 : tasks[k].description = <<"B">> /\ tasks[k].status = "DONE"
    /\ \E k \in 1..2 : tasks[k].priority = "HIGH"

\* a key read in search mode; expired says whether the pass that reads
\* KEY_RESIZE found the message timed out
SearchModeKey(expired) ==
    /\ search_active
    /\ AtGetch
    /\ \/ SearchEscape
       \/ SearchBackspace
       \/ SearchEnter
       \/ SearchTab
       \/ \E key \in CursorKeys : CursorKey(key)
       \/ \E c \in PrintableKeys : SearchKey(c)
       \/ KeyResize(expired)

\* the store, the file and the sort stay as they were
StoreUntouched == UNCHANGED <<tasks, file, sort_by, sort_reverse, nextId, now>>

\* "q" and "Q" end the loop and leave the query alone; any other printable
\* character is appended to the query
QuitsOrAppends ==
    search_active =>
        \A c \in PrintableKeys :
            SearchKey(c) =>
                IF c \in {"q", "Q"}
                THEN pc' = "done" /\ search_query' = search_query
                ELSE pc' = pc /\ search_query' = search_query \o <<c>>

====
